---------------------------- MODULE Spec2Model ----------------------------
(***************************************************************************)
(* Model of performance_benchmark.py: the fixture generator                *)
(* (create_performance_test_project), the timer (benchmark_operation) and  *)
(* the benchmark run with its summary analysis (run_benchmarks).           *)
(*                                                                         *)
(* Strings whose characters matter (table names, file names, sample        *)
(* labels) are sequences of one-character strings, so that formatting and  *)
(* the substring test of the summary are computed, not assumed.            *)
(* Times are integers (milliseconds); averages and the scaling factor are  *)
(* IEEE 754 doubles, computed with round-to-nearest-even as Python does.   *)
(***************************************************************************)
EXTENDS Integers, Sequences, FiniteSets, TLC

VARIABLES
    pc,         \* position of run_benchmarks / of the driver of a function specification
    ip,         \* index of the next statement of the try body (RunPlan)
    input,      \* arguments of the call under study (GenSpec), else NoInput
    writes,     \* the calls of create_performance_test_project made under the scratch
                \* root, in order, each with the writes it completed (see Files)
    scratch,    \* the scratch directory: created, exists, rmtree calls and outcome,
                \* the directories in which rmtree left a file
    benchmarks, \* results["benchmarks"]: sequence of [operation, time_ms]
    calls,      \* generator and connector calls invoked so far: [who, op]
    loaded,     \* connector -> the writers of the files of the project it loaded
    thrown,     \* the exception a step raised, where and by what, or NoThrown
    raised,     \* the exception that left run_benchmarks, or NoExc
    result,     \* outcome of the summary analysis, or NoResult
    artifact    \* content of benchmark_results.json, or NoArtifact

vars == <<pc, ip, input, writes, scratch, benchmarks, calls, loaded,
          thrown, raised, result, artifact>>

-----------------------------------------------------------------------------
(* Bounds of the function specifications *)

MaxTables == 7
MaxVisuals == 11

-----------------------------------------------------------------------------
(* Character strings *)

Digits == <<"0", "1", "2", "3", "4", "5", "6", "7", "8", "9">>

RECURSIVE Dec(_)
Dec(n) == IF n < 10 THEN <<Digits[n + 1]>>
          ELSE Dec(n \div 10) \o <<Digits[(n % 10) + 1]>>

\* format spec :0wd  (zero padded to at least w digits)
ZeroPad(n, w) ==
    LET d == Dec(n)
    IN  IF Len(d) >= w THEN d ELSE [k \in 1..(w - Len(d)) |-> "0"] \o d

\* Python's  sub in s
Contains(sub, s) ==
    \E k \in 0..(Len(s) - Len(sub)) : SubSeq(s, k + 1, k + Len(sub)) = sub

HasSpace(s) == \E k \in 1..Len(s) : s[k] = " "

c_Table == <<"T", "a", "b", "l", "e">>
c_With_Spaces == <<" ", "W", "i", "t", "h", " ", "S", "p", "a", "c", "e", "s">>
c_Column == <<"C", "o", "l", "u", "m", "n">>
c_rel == <<"r", "e", "l">>
c_page == <<"p", "a", "g", "e">>
c_visual == <<"v", "i", "s", "u", "a", "l">>
c_visuals == <<"v", "i", "s", "u", "a", "l", "s">>
c_us == <<"_">>
c_tmdl == <<".", "t", "m", "d", "l">>
c_json == <<".", "j", "s", "o", "n">>
c_report == <<"r", "e", "p", "o", "r", "t">>
c_pages == <<"p", "a", "g", "e", "s">>
c_pbip == <<"P", "e", "r", "f", "T", "e", "s", "t", ".", "p", "b", "i", "p">>
c_small == <<"s", "m", "a", "l", "l">>
c_medium == <<"m", "e", "d", "i", "u", "m">>
c_large == <<"l", "a", "r", "g", "e">>
c_load == <<"l", "o", "a", "d">>
c_validate == <<"v", "a", "l", "i", "d", "a", "t", "e">>
c_fix_dax == <<"f", "i", "x", "_", "d", "a", "x">>
c_rename_table == <<"r", "e", "n", "a", "m", "e", "_", "t", "a", "b", "l", "e">>


-----------------------------------------------------------------------------
(* create_performance_test_project *)

TablesDir == "PerfTest/PerfTest.SemanticModel/definition/tables"
RelationshipsDir == "PerfTest/PerfTest.SemanticModel/definition/relationships"
ReportDir == "PerfTest/PerfTest.Report"
DefinitionDir == "PerfTest/PerfTest.Report/definition"
PagesDir == "PerfTest/PerfTest.Report/definition/pages"

\* a file below the scratch root; sub is the page/visual directory chain of a visual
Path(dir, sub, name) == [dir |-> dir, sub |-> sub, name |-> name]

\* table_name = f"Table_{i+1:03d}"   (i is the 0-based loop index)
TableName(i) == c_Table \o c_us \o ZeroPad(i + 1, 3)

\* variant: the spaced name on index 1 mod 3 instead of 0 mod 3
SafeNameModMutant(i) ==
    IF i % 3 # 1 THEN TableName(i)
    ELSE c_Table \o c_With_Spaces \o c_us \o ZeroPad(i + 1, 3)

\* safe_name = table_name if i % 3 != 0 else f"Table With Spaces_{i+1:03d}"
SafeName(i) ==
    IF i % 3 # 0 THEN TableName(i)
    ELSE c_Table \o c_With_Spaces \o c_us \o ZeroPad(i + 1, 3)

\* f"Column_{j+1:02d}"   (j is the 0-based index)
ColumnName(j) == c_Column \o c_us \o ZeroPad(j + 1, 2)

Columns == [j \in 1..5 |-> [name |-> ColumnName(j - 1), dataType |-> "string"]]

Measures(i) ==
    IF i % 2 = 0
    THEN << [name |-> "MeasureCount", fn |-> "COUNTROWS", table |-> TableName(i),
             column |-> << >>],
            [name |-> "MeasureSum", fn |-> "SUM", table |-> TableName(i),
             column |-> ColumnName(0)] >>
    ELSE << >>

\* len(padding_per_table) = 4 + 3 * (avg_table_size_kb * 100)
PaddingLen(kb) == 4 + 3 * (kb * 100)

TablePath(i) == Path(TablesDir, << >>, TableName(i) \o c_tmdl)

TableWrite(i, kb) ==
    [path |-> TablePath(i),
     content |-> [kind |-> "table", name |-> SafeName(i), columns |-> Columns,
                  measures |-> Measures(i), padding |-> PaddingLen(kb)]]

RelPath(i) == Path(RelationshipsDir, << >>, c_rel \o c_us \o Dec(i + 1) \o c_tmdl)

\* variant: every relationship points back to the first table
RelWriteCycleMutant(i) ==
    [path |-> RelPath(i),
     content |-> [kind |-> "relationship", name |-> c_rel \o c_us \o Dec(i + 1),
                  cardinality |-> "manyToOne",
                  fromTable |-> c_Table \o c_us \o ZeroPad(i + 1, 3),
                  fromColumn |-> c_Column \o c_us \o <<"0", "1">>,
                  toTable |-> c_Table \o c_us \o ZeroPad(1, 3),
                  toColumn |-> c_Column \o c_us \o <<"0", "1">>]]

\* the relationship file of loop index i (0-based): rel_{i+1}
RelWrite(i) ==
    [path |-> RelPath(i),
     content |-> [kind |-> "relationship", name |-> c_rel \o c_us \o Dec(i + 1),
                  cardinality |-> "manyToOne",
                  fromTable |-> c_Table \o c_us \o ZeroPad(i + 1, 3),
                  fromColumn |-> c_Column \o c_us \o <<"0", "1">>,
                  toTable |-> c_Table \o c_us \o ZeroPad(i + 2, 3),
                  toColumn |-> c_Column \o c_us \o <<"0", "1">>]]

\* variant: range(num_tables)
RelCountMutant(num_tables) == num_tables

\* range(num_tables - 1)
RelCount(num_tables) == IF num_tables - 1 > 0 THEN num_tables - 1 ELSE 0

\* page_id = f"page_{(v // 5) + 1:02d}"
PageId(v) == c_page \o c_us \o ZeroPad((v \div 5) + 1, 2)

\* visual_id = f"visual_{v+1:03d}"
VisualId(v) == c_visual \o c_us \o ZeroPad(v + 1, 3)

\* visual_dir = pages_dir / page_id / "visuals" / visual_id; visual_dir / "visual.json"
VisualPath(v) ==
    Path(PagesDir, <<PageId(v), c_visuals, VisualId(v)>>, c_visual \o c_json)

VisualWrite(v, num_tables) ==
    [path |-> VisualPath(v),
     content |-> [kind |-> "visual", version |-> "1.0", type |-> "card",
                  entity |-> c_Table \o c_us \o ZeroPad((v % num_tables) + 1, 3),
                  property |-> c_Column \o c_us \o <<"0", "1">>]]

PbipWrite ==
    [path |-> Path("PerfTest", << >>, c_pbip),
     content |-> [kind |-> "pbip", version |-> "1.0"]]

ReportWrites(num_tables, num_visuals, use_pbir_enhanced) ==
    IF use_pbir_enhanced
    THEN << [path |-> Path(DefinitionDir, << >>, c_report \o c_json),
             content |-> [kind |-> "report", version |-> "2.0"]],
            [path |-> Path(PagesDir, << >>, c_pages \o c_json),
             content |-> [kind |-> "pages", pages |-> <<"Page1">>]] >>
         \o [k \in 1..num_visuals |-> VisualWrite(k - 1, num_tables)]
    ELSE << [path |-> Path(ReportDir, << >>, c_report \o c_json),
             content |-> [kind |-> "report", version |-> "1.0", sections |-> << >>]] >>

\* every file the call writes, in the order the code writes them
GenWrites(num_tables, num_visuals, kb, use_pbir_enhanced) ==
    <<PbipWrite>>
    \o [k \in 1..num_tables |-> TableWrite(k - 1, kb)]
    \o [k \in 1..RelCount(num_tables) |-> RelWrite(k - 1)]
    \o ReportWrites(num_tables, num_visuals, use_pbir_enhanced)

EmptyFS == {}

\* open(path, 'w') + write, for each element of ws: creates or overwrites.
\* The file system is the set of [path, content, writer] of the files that exist;
\* writer is the tier whose generate call wrote the content.
ApplyWrites(fs, ws, tier) ==
    LET W == {[path |-> ws[k].path, content |-> ws[k].content, writer |-> tier] :
                 k \in 1..Len(ws)}
        P == {w.path : w \in W}
    IN  {f \in fs : f.path \notin P} \cup W

\* the [path, tier] pairs "tier's generate call wrote path", after tier's call wrote ws
ApplyOwner(ow, ws, tier) ==
    ow \cup {[path |-> ws[k].path, tier |-> tier] : k \in 1..Len(ws)}

\* what a created or truncated file holds when its write did not complete
Incomplete == [kind |-> "incomplete"]

\* the files after a call that completed the first k writes of ws and then
\* returned (k = Len(ws)) or was interrupted by a filesystem error (k < Len(ws)):
\* the error came before the next file was opened (makedirs or open failed), or
\* after open() created or truncated it
Interrupted(fs, ws, k, opened, tier) ==
    LET done == ApplyWrites(fs, SubSeq(ws, 1, k), tier)
    IN  IF opened
        THEN ApplyWrites(done, <<[path |-> ws[k + 1].path, content |-> Incomplete]>>,
                         tier)
        ELSE done

\* the paths the call wrote or opened for writing
InterruptedOwner(ow, ws, k, opened, tier) ==
    ApplyOwner(ow, SubSeq(ws, 1, IF opened THEN k + 1 ELSE k), tier)

\* one call of create_performance_test_project as far as it got: completed counts
\* the writes done, opened tells whether the next file was opened and left incomplete
Call(tier, num_tables, num_visuals, kb, enhanced, completed, opened) ==
    [tier |-> tier, num_tables |-> num_tables, num_visuals |-> num_visuals, kb |-> kb,
     enhanced |-> enhanced, completed |-> completed, opened |-> opened]

CallWrites(c) == GenWrites(c.num_tables, c.num_visuals, c.kb, c.enhanced)

\* the files the calls of log leave below the root: each call creates or overwrites
RECURSIVE FilesAfter(_)
FilesAfter(log) ==
    IF log = << >> THEN EmptyFS
    ELSE LET c == log[Len(log)]
         IN  Interrupted(FilesAfter(SubSeq(log, 1, Len(log) - 1)), CallWrites(c),
                         c.completed, c.opened, c.tier)

\* the [path, tier] pairs "tier's call wrote path" of the calls of log
RECURSIVE OwnerAfter(_)
OwnerAfter(log) ==
    IF log = << >> THEN EmptyFS
    ELSE LET c == log[Len(log)]
         IN  InterruptedOwner(OwnerAfter(SubSeq(log, 1, Len(log) - 1)), CallWrites(c),
                              c.completed, c.opened, c.tier)

\* the directory of each file the call writes, in the order of GenWrites
WriteDirs(num_tables, num_visuals, use_pbir_enhanced) ==
    <<"PerfTest">>
    \o [k \in 1..num_tables |-> TablesDir]
    \o [k \in 1..RelCount(num_tables) |-> RelationshipsDir]
    \o (IF use_pbir_enhanced
        THEN <<DefinitionDir, PagesDir>> \o [k \in 1..num_visuals |-> PagesDir]
        ELSE <<ReportDir>>)

\* the directories below the root that hold a file after the calls of log
RECURSIVE DirsAfter(_)
DirsAfter(log) ==
    IF log = << >> THEN {}
    ELSE LET c == log[Len(log)]
             ds == WriteDirs(c.num_tables, c.num_visuals, c.enhanced)
             n == IF c.opened THEN c.completed + 1 ELSE c.completed
         IN  DirsAfter(SubSeq(log, 1, Len(log) - 1)) \cup {ds[k] : k \in 1..n}

\* the files under the scratch root until rmtree runs: set of [path, content,
\* writer], writer the tier whose call wrote the content.  (After rmtree,
\* scratch.left tells which directories still hold files.)
Files == FilesAfter(writes)

\* set of [path, tier]: tier's generate call wrote path
Owner == OwnerAfter(writes)

-----------------------------------------------------------------------------
(* IEEE 754 double arithmetic on non-negative values.  A double is             *)
(* [hi, lo, e] with value (hi * 2^27 + lo) * 2^e and a 53-bit mantissa         *)
(* (2^25 <= hi < 2^26), or ZeroD.  Exponent range limits are never reached.    *)

W == 2^27

ZeroD == [hi |-> 0, lo |-> 0, e |-> 0]

RECURSIVE NormUp(_, _, _)
NormUp(hi, lo, e) ==
    IF hi >= 2^25 THEN [hi |-> hi, lo |-> lo, e |-> e]
    ELSE NormUp(2 * hi + (2 * lo) \div W, (2 * lo) % W, e - 1)

\* float(n) for an integer 0 <= n < 2^31 (exact)
IntToDouble(n) == IF n = 0 THEN ZeroD ELSE NormUp(n \div W, n % W, 0)

\* n steps of binary long division by (bh, bl): remainder (rh, rl), quotient (qh, ql)
RECURSIVE DivLoop(_, _, _, _, _, _, _)
DivLoop(rh, rl, qh, ql, n, bh, bl) ==
    IF n = 0 THEN [qh |-> qh, ql |-> ql, rh |-> rh, rl |-> rl]
    ELSE LET l2 == (2 * rl) % W
             h2 == 2 * rh + (2 * rl) \div W
             ge == h2 > bh \/ (h2 = bh /\ l2 >= bl)
             borrow == IF l2 >= bl THEN 0 ELSE 1
             sl == IF ge THEN l2 + borrow * W - bl ELSE l2
             sh == IF ge THEN h2 - bh - borrow ELSE h2
             q2 == 2 * ql + (IF ge THEN 1 ELSE 0)
         IN  DivLoop(sh, sl, 2 * qh + q2 \div W, q2 % W, n - 1, bh, bl)

\* a / b for doubles a >= 0, b > 0: the quotient rounded to nearest, ties to even
FDiv(a, b) ==
    IF a = ZeroD THEN ZeroD
    ELSE LET ge == a.hi > b.hi \/ (a.hi = b.hi /\ a.lo >= b.lo)
             borrow == IF a.lo >= b.lo THEN 0 ELSE 1
             d == IF ge
                  THEN DivLoop(a.hi - b.hi - borrow, a.lo + borrow * W - b.lo,
                               0, 1, 52, b.hi, b.lo)
                  ELSE DivLoop(a.hi, a.lo, 0, 0, 53, b.hi, b.lo)
             e == a.e - b.e - (IF ge THEN 52 ELSE 53)
             l2 == (2 * d.rl) % W
             h2 == 2 * d.rh + (2 * d.rl) \div W
             up == \/ h2 > b.hi
                   \/ (h2 = b.hi /\ l2 > b.lo)
                   \/ (h2 = b.hi /\ l2 = b.lo /\ d.ql % 2 = 1)
             ql == d.ql + (IF up THEN 1 ELSE 0)
             qh == d.qh + ql \div W
         IN  IF qh >= 2^26 THEN [hi |-> 2^25, lo |-> 0, e |-> e + 1]
             ELSE [hi |-> qh, lo |-> ql % W, e |-> e]

\* a < b for doubles a, b >= 0
DoubleLt(a, b) ==
    IF b = ZeroD THEN FALSE
    ELSE IF a = ZeroD THEN TRUE
    ELSE \/ a.e < b.e
         \/ a.e = b.e /\ (a.hi < b.hi \/ (a.hi = b.hi /\ a.lo < b.lo))

-----------------------------------------------------------------------------
(* Summary analysis of run_benchmarks *)

Tiers == <<c_small, c_medium, c_large>>

\* variant: b["operation"].startswith(tier)
SelectOpsPrefixMutant(bs, t) ==
    SelectSeq(bs, LAMBDA b : Len(b.operation) >= Len(Tiers[t])
                             /\ SubSeq(b.operation, 1, Len(Tiers[t])) = Tiers[t])

\* [b for b in results["benchmarks"] if tier in b["operation"]], tier = Tiers[t]
SelectOps(bs, t) ==
    SelectSeq(bs, LAMBDA b : Contains(Tiers[t], b.operation))

RECURSIVE SumTimes(_)
\* sum(b['time_ms'] for b in ops)
SumTimes(ops) ==
    IF ops = << >> THEN 0 ELSE Head(ops).time_ms + SumTimes(Tail(ops))

\* sum(...) / len(ops), a float division; raises ZeroDivisionError when len(ops) = 0,
\* which the caller tests first
Avg(ops) == FDiv(IntToDouble(SumTimes(ops)), IntToDouble(Len(ops)))

\* scaling_factor = large_avg / small_avg if small_avg > 0 else 0
ScalingFactor(small_avg, large_avg) ==
    IF DoubleLt(ZeroD, small_avg) THEN FDiv(large_avg, small_avg) ELSE ZeroD

\* variant: <= in place of <
ClassifyInclusiveMutant(sf) ==
    IF ~DoubleLt(IntToDouble(30), sf) THEN "sub-linear"
    ELSE IF ~DoubleLt(IntToDouble(100), sf) THEN "linear"
    ELSE "super-linear"

\* the branch of the if / elif / else on scaling_factor that prints
Classify(sf) ==
    IF DoubleLt(sf, IntToDouble(30)) THEN "sub-linear"
    ELSE IF DoubleLt(sf, IntToDouble(100)) THEN "linear"
    ELSE "super-linear"

\* the non-ASCII mark at the head of the line each branch prints
Marks == {"check", "warning"}
MarkOf(classification) == IF classification = "sub-linear" THEN "check" ELSE "warning"

\* results["summary"] before the summary section assigns it
NoSummary == [small_avg_ms |-> ZeroD, medium_avg_ms |-> ZeroD, large_avg_ms |-> ZeroD]
NoResult == [raised |-> "none", small_ops |-> << >>, medium_ops |-> << >>,
             large_ops |-> << >>, has_factor |-> FALSE, scaling_factor |-> ZeroD,
             classification |-> "none", summary |-> NoSummary]

\* the summary section: grouping, the three averages (a tier without samples
\* divides by zero), the scaling analysis and results["summary"]; encodable holds
\* the marks that sys.stdout can encode, print raises UnicodeEncodeError on another
SummaryAnalysis(bs, encodable) ==
    LET small_ops == SelectOps(bs, 1)
        medium_ops == SelectOps(bs, 2)
        large_ops == SelectOps(bs, 3)
        groups == [NoResult EXCEPT !.small_ops = small_ops,
                                   !.medium_ops = medium_ops,
                                   !.large_ops = large_ops]
    IN  IF Len(small_ops) = 0 \/ Len(medium_ops) = 0 \/ Len(large_ops) = 0
        THEN [groups EXCEPT !.raised = "ZeroDivisionError"]
        ELSE LET scaled == Len(small_ops) > 0 /\ Len(large_ops) > 0
                 small_avg == Avg(small_ops)
                 large_avg == Avg(large_ops)
                 sf == ScalingFactor(small_avg, large_avg)
                 analysed == [groups EXCEPT
                                 !.has_factor = scaled,
                                 !.scaling_factor = IF scaled THEN sf ELSE ZeroD]
             IN  IF scaled /\ MarkOf(Classify(sf)) \notin encodable
                 THEN [analysed EXCEPT !.raised = "UnicodeEncodeError"]
                 ELSE [analysed EXCEPT
                         !.classification = IF scaled THEN Classify(sf) ELSE "none",
                         !.summary = [small_avg_ms |-> small_avg,
                                      medium_avg_ms |-> Avg(medium_ops),
                                      large_avg_ms |-> large_avg]]

-----------------------------------------------------------------------------
(* Values shared by the specifications *)

NoExc == "none"
NoThrown == [exc |-> NoExc, at |-> 0, by |-> "none"]
NoInput == [num_tables |-> 0, num_visuals |-> 0, kb |-> 0, enhanced |-> FALSE]
NoScratch == [created |-> FALSE, exists |-> FALSE, rmtree_calls |-> 0,
              rmtree_ok |-> FALSE, left |-> {}]
\* benchmark_results.json: absent; written = json.dump completed; partial = opened
\* for writing (created or truncated) and not completely written
NoArtifact == [written |-> FALSE, partial |-> FALSE, benchmarks |-> << >>,
               summary |-> NoSummary]
NoLoaded == [c \in 1..3 |-> {}]

-----------------------------------------------------------------------------
(* GenSpec: one call of create_performance_test_project into a fresh root *)

GenInputs ==
    [num_tables : 1..MaxTables, num_visuals : 0..MaxVisuals, kb : {0, 5},
     enhanced : BOOLEAN]

GenInit ==
    /\ pc = "gen_start"
    /\ ip = 0
    /\ input \in GenInputs
    /\ writes = << >>
    /\ scratch = [NoScratch EXCEPT !.created = TRUE, !.exists = TRUE]
    /\ benchmarks = << >>
    /\ calls = << >>
    /\ loaded = NoLoaded
    /\ thrown = NoThrown
    /\ raised = NoExc
    /\ result = NoResult
    /\ artifact = NoArtifact

\* the call returns: every file is written
GenReturn ==
    /\ pc = "gen_start"
    /\ LET ws == GenWrites(input.num_tables, input.num_visuals, input.kb,
                           input.enhanced)
       IN  writes' = Append(writes,
                Call("caller", input.num_tables, input.num_visuals, input.kb,
                     input.enhanced, Len(ws), FALSE))
    /\ pc' = "gen_done"
    /\ UNCHANGED <<ip, input, scratch, benchmarks, calls, loaded, thrown, raised,
                   result, artifact>>

\* a filesystem error after k complete writes propagates; what was written stays
GenRaise ==
    /\ pc = "gen_start"
    /\ LET ws == GenWrites(input.num_tables, input.num_visuals, input.kb,
                           input.enhanced)
       IN  \E k \in 0..(Len(ws) - 1), opened \in BOOLEAN :
              writes' = Append(writes,
                 Call("caller", input.num_tables, input.num_visuals, input.kb,
                      input.enhanced, k, opened))
    /\ thrown' = [exc |-> "OSError", at |-> 0, by |-> "generate"]
    /\ raised' = "OSError"
    /\ pc' = "gen_raised"
    /\ UNCHANGED <<ip, input, scratch, benchmarks, calls, loaded, result, artifact>>

GenNext == GenReturn \/ GenRaise

GenSpec == GenInit /\ [][GenNext]_vars

-----------------------------------------------------------------------------
(* Spec: run_benchmarks *)

\* variant: benchmark_operation swallowing the operation's exception
BenchmarkOperationSwallowMutant(outcome) ==
    [raised |-> NoExc, elapsed_ms |-> outcome.elapsed]

\* benchmark_operation: the operation's exception passes through, else the
\* elapsed time (end - start) * 1000 is returned
BenchmarkOperation(outcome) ==
    IF outcome.raises
    THEN [raised |-> outcome.exc, elapsed_ms |-> 0]
    ELSE [raised |-> NoExc, elapsed_ms |-> outcome.elapsed]

Gen(tier, n, v, kb) ==
    [kind |-> "gen", tier |-> tier, who |-> "generator", op |-> tier,
     label |-> << >>, num_tables |-> n, num_visuals |-> v, kb |-> kb]

Op(tier, conn, op, label) ==
    [kind |-> "op", tier |-> tier, who |-> conn, op |-> op,
     label |-> label, num_tables |-> 0, num_visuals |-> 0, kb |-> 0]

\* variant: the rename is timed in the medium tier instead of the small tier
RunPlanRenameMediumMutant ==
    << Gen("small", 10, 20, 5),
       Op("small", "connector", "load_project", c_load \o c_us \o c_small),
       Op("small", "connector", "validate_tmdl_syntax", c_validate \o c_us \o c_small),
       Op("small", "connector", "fix_all_dax_quoting", c_fix_dax \o c_us \o c_small),
       Gen("medium", 50, 100, 10),
       Op("medium", "connector2", "load_project", c_load \o c_us \o c_medium),
       Op("medium", "connector2", "validate_tmdl_syntax", c_validate \o c_us \o c_medium),
       Op("medium", "connector2", "fix_all_dax_quoting", c_fix_dax \o c_us \o c_medium),
       Op("medium", "connector2", "rename_table_in_files",
          c_rename_table \o c_us \o c_medium),
       Gen("large", 200, 500, 15),
       Op("large", "connector3", "load_project", c_load \o c_us \o c_large),
       Op("large", "connector3", "validate_tmdl_syntax", c_validate \o c_us \o c_large),
       Op("large", "connector3", "fix_all_dax_quoting", c_fix_dax \o c_us \o c_large) >>

\* the statements of the try body up to the summary, in program order
RunPlan ==
    << Gen("small", 10, 20, 5),
       Op("small", "connector", "load_project", c_load \o c_us \o c_small),
       Op("small", "connector", "validate_tmdl_syntax", c_validate \o c_us \o c_small),
       Op("small", "connector", "fix_all_dax_quoting", c_fix_dax \o c_us \o c_small),
       Op("small", "connector", "rename_table_in_files",
          c_rename_table \o c_us \o c_small),
       Gen("medium", 50, 100, 10),
       Op("medium", "connector2", "load_project", c_load \o c_us \o c_medium),
       Op("medium", "connector2", "validate_tmdl_syntax", c_validate \o c_us \o c_medium),
       Op("medium", "connector2", "fix_all_dax_quoting", c_fix_dax \o c_us \o c_medium),
       Gen("large", 200, 500, 15),
       Op("large", "connector3", "load_project", c_load \o c_us \o c_large),
       Op("large", "connector3", "validate_tmdl_syntax", c_validate \o c_us \o c_large),
       Op("large", "connector3", "fix_all_dax_quoting", c_fix_dax \o c_us \o c_large) >>

ConnectorIndex(who) ==
    IF who = "connector" THEN 1 ELSE IF who = "connector2" THEN 2 ELSE 3

\* elapsed_ms of a timed operation that returns, in whole milliseconds (their
\* sums are exact in double precision); per tier, so that a zero small average
\* and factors on both sides of 30 and of 100 occur
RunElapsed(label) ==
    IF Contains(c_small, label) THEN {0, 1}
    ELSE IF Contains(c_medium, label) THEN {5}
    ELSE {1, 30, 100}

\* exceptions a connector method raises; benchmark_operation lets any through
ConnectorErrors == {"ValueError", "OSError", "KeyError"}

\* what a timed connector operation can do: return after some time, or raise
Outcomes(label) ==
    [raises : {FALSE}, exc : {NoExc}, elapsed : RunElapsed(label)]
    \cup [raises : {TRUE}, exc : ConnectorErrors, elapsed : {0}]

\* variant: no finally clause, the exception leaves at once
OnRaiseNoFinallyMutant == "done"

\* try: ... finally: an exception raised inside the try block runs the finally
\* clause before it leaves run_benchmarks
OnRaise == "finally"

\* the position after statement ip of the try body
AfterStep(k) == IF k = Len(RunPlan) THEN "summary" ELSE "try"

Init ==
    /\ pc = "mkdtemp"
    /\ ip = 0
    /\ input = NoInput
    /\ writes = << >>
    /\ scratch = NoScratch
    /\ benchmarks = << >>
    /\ calls = << >>
    /\ loaded = NoLoaded
    /\ thrown = NoThrown
    /\ raised = NoExc
    /\ result = NoResult
    /\ artifact = NoArtifact

\* temp_dir = tempfile.mkdtemp(...)
Mkdtemp ==
    /\ pc = "mkdtemp"
    /\ scratch' = [scratch EXCEPT !.created = TRUE, !.exists = TRUE]
    /\ pc' = "try"
    /\ ip' = 1
    /\ UNCHANGED <<input, writes, benchmarks, calls, loaded, thrown, raised,
                   result, artifact>>

\* mkdtemp fails: the exception leaves run_benchmarks before the try block
MkdtempRaise ==
    /\ pc = "mkdtemp"
    /\ thrown' = [exc |-> "OSError", at |-> 0, by |-> "mkdtemp"]
    /\ raised' = "OSError"
    /\ pc' = "done"
    /\ UNCHANGED <<ip, input, writes, scratch, benchmarks, calls, loaded,
                   result, artifact>>

\* create_performance_test_project(temp_dir, ...) returns
Generate ==
    /\ pc = "try"
    /\ RunPlan[ip].kind = "gen"
    /\ LET st == RunPlan[ip]
           ws == GenWrites(st.num_tables, st.num_visuals, st.kb, TRUE)
       IN  /\ writes' = Append(writes,
                  Call(st.tier, st.num_tables, st.num_visuals, st.kb, TRUE, Len(ws),
                       FALSE))
           /\ calls' = Append(calls, [who |-> st.who, op |-> st.op])
    /\ pc' = AfterStep(ip)
    /\ ip' = ip + 1
    /\ UNCHANGED <<input, scratch, benchmarks, loaded, thrown, raised, result,
                   artifact>>

\* create_performance_test_project raises after k complete writes, before the
\* next file is opened or after open() created or truncated it
GenerateRaise ==
    /\ pc = "try"
    /\ RunPlan[ip].kind = "gen"
    /\ LET st == RunPlan[ip]
           ws == GenWrites(st.num_tables, st.num_visuals, st.kb, TRUE)
       IN  /\ \E k \in 0..(Len(ws) - 1), opened \in BOOLEAN :
                 writes' = Append(writes,
                    Call(st.tier, st.num_tables, st.num_visuals, st.kb, TRUE, k, opened))
           /\ calls' = Append(calls, [who |-> st.who, op |-> st.op])
    /\ thrown' = [exc |-> "OSError", at |-> ip, by |-> "generate"]
    /\ raised' = "OSError"
    /\ pc' = OnRaise
    /\ UNCHANGED <<ip, input, scratch, benchmarks, loaded, result, artifact>>

\* elapsed, _ = benchmark_operation(name, connector.<op>, ...) and the append
ConnectorOp ==
    /\ pc = "try"
    /\ RunPlan[ip].kind = "op"
    /\ \E outcome \in Outcomes(RunPlan[ip].label) :
          LET st == RunPlan[ip]
              r == BenchmarkOperation(outcome)
          IN  /\ calls' = Append(calls, [who |-> st.who, op |-> st.op])
              /\ loaded' =
                    IF st.op = "load_project"
                    THEN [loaded EXCEPT ![ConnectorIndex(st.who)] =
                             {f.writer : f \in Files}]
                    ELSE loaded
              /\ thrown' = IF outcome.raises
                           THEN [exc |-> outcome.exc, at |-> ip, by |-> "connector"]
                           ELSE thrown
              /\ IF r.raised # NoExc
                 THEN /\ raised' = r.raised
                      /\ pc' = OnRaise
                      /\ UNCHANGED <<ip, benchmarks>>
                 ELSE /\ benchmarks' = Append(benchmarks,
                            [operation |-> st.label, time_ms |-> r.elapsed_ms])
                      /\ pc' = AfterStep(ip)
                      /\ ip' = ip + 1
                      /\ UNCHANGED raised
    /\ UNCHANGED <<input, writes, scratch, result, artifact>>

\* the summary section
Summarize ==
    /\ pc = "summary"
    /\ \E encodable \in SUBSET Marks :
          result' = SummaryAnalysis(benchmarks, encodable)
    /\ IF result'.raised # NoExc
       THEN /\ thrown' = [exc |-> result'.raised, at |-> ip, by |-> "summary"]
            /\ raised' = result'.raised
            /\ pc' = OnRaise
       ELSE /\ pc' = "save"
            /\ UNCHANGED <<thrown, raised>>
    /\ UNCHANGED <<ip, input, writes, scratch, benchmarks, calls, loaded,
                   artifact>>

\* with open('benchmark_results.json', 'w') as f: json.dump(results, f, indent=2)
\* and the closing print
Save ==
    /\ pc = "save"
    /\ artifact' = [written |-> TRUE, partial |-> FALSE, benchmarks |-> benchmarks,
                    summary |-> result.summary]
    /\ pc' = "finally"
    /\ UNCHANGED <<ip, input, writes, scratch, benchmarks, calls, loaded,
                   thrown, raised, result>>

\* the artifact cannot be opened, or a write fails after open() created or
\* truncated it
SaveRaise ==
    /\ pc = "save"
    /\ \E opened \in BOOLEAN :
          artifact' = IF opened THEN [NoArtifact EXCEPT !.partial = TRUE] ELSE artifact
    /\ thrown' = [exc |-> "OSError", at |-> ip, by |-> "save"]
    /\ raised' = "OSError"
    /\ pc' = OnRaise
    /\ UNCHANGED <<ip, input, writes, scratch, benchmarks, calls, loaded,
                   result>>

\* the artifact is written and the closing print raises: its line starts with the
\* check mark, which stdout is known to encode only if the sub-linear line was printed
SavePrintRaise ==
    /\ pc = "save"
    /\ MarkOf(result.classification) # "check"
    /\ artifact' = [written |-> TRUE, partial |-> FALSE, benchmarks |-> benchmarks,
                    summary |-> result.summary]
    /\ thrown' = [exc |-> "UnicodeEncodeError", at |-> ip, by |-> "save"]
    /\ raised' = "UnicodeEncodeError"
    /\ pc' = OnRaise
    /\ UNCHANGED <<ip, input, writes, scratch, benchmarks, calls, loaded,
                   result>>

\* finally: shutil.rmtree(temp_dir, ignore_errors=True) removes the tree
Cleanup ==
    /\ pc = "finally"
    /\ scratch' = [scratch EXCEPT !.exists = FALSE,
                                  !.rmtree_calls = scratch.rmtree_calls + 1,
                                  !.rmtree_ok = TRUE]
    /\ writes' = << >>
    /\ pc' = "done"
    /\ UNCHANGED <<ip, input, benchmarks, calls, loaded, thrown, raised, result,
                   artifact>>

\* finally: deletions fail and the errors are ignored; rmtree goes on past each
\* failing entry, so the root directory stays with the entries it could not
\* delete, any of the files below it (or none, when only a directory could not be
\* removed).  The state records the directories in which a file is left, not
\* which of their files: left is any set of the directories that held files
CleanupIgnoredError ==
    /\ pc = "finally"
    /\ \E left \in SUBSET DirsAfter(writes) :
          scratch' = [scratch EXCEPT !.rmtree_calls = scratch.rmtree_calls + 1,
                                     !.rmtree_ok = FALSE,
                                     !.left = left]
    /\ writes' = << >>
    /\ pc' = "done"
    /\ UNCHANGED <<ip, input, benchmarks, calls, loaded, thrown, raised, result,
                   artifact>>

Next ==
    \/ Mkdtemp
    \/ MkdtempRaise
    \/ Generate
    \/ GenerateRaise
    \/ ConnectorOp
    \/ Summarize
    \/ Save
    \/ SaveRaise
    \/ SavePrintRaise
    \/ Cleanup
    \/ CleanupIgnoredError

Spec == Init /\ [][Next]_vars

-----------------------------------------------------------------------------
(* SumSpec: the summary section of run_benchmarks, entered with the ten samples *)
(* the try body appends, over a wider choice of measured times                  *)

\* the labels of the timed operations, in the order the try body appends them
RunLabels ==
    LET ops == SelectSeq(RunPlan, LAMBDA st : st.kind = "op")
    IN  [k \in 1..Len(ops) |-> ops[k].label]

\* elapsed milliseconds of a sample, per tier: zero and positive small-tier
\* times, and large-tier times that put the factor on the thresholds 30 and 100
\* and on either side of them
ElapsedValues(label) ==
    IF Contains(c_small, label) THEN {0, 7, 10}
    ELSE IF Contains(c_medium, label) THEN {10}
    ELSE {25, 300, 1000}

\* the lists of samples with the given labels, in order
RECURSIVE SamplesFor(_)
SamplesFor(labels) ==
    IF labels = << >> THEN {<< >>}
    ELSE {<<[operation |-> Head(labels), time_ms |-> t]>> \o rest :
             t \in ElapsedValues(Head(labels)), rest \in SamplesFor(Tail(labels))}

\* results["benchmarks"] when the try body reaches the summary section
SampleLists == SamplesFor(RunLabels)

SumInit ==
    /\ pc = "sum_start"
    /\ ip = 0
    /\ input = NoInput
    /\ writes = << >>
    /\ scratch = NoScratch
    /\ benchmarks \in SampleLists
    /\ calls = << >>
    /\ loaded = NoLoaded
    /\ thrown = NoThrown
    /\ raised = NoExc
    /\ result = NoResult
    /\ artifact = NoArtifact

SumStep ==
    /\ pc = "sum_start"
    /\ \E encodable \in SUBSET Marks :
          result' = SummaryAnalysis(benchmarks, encodable)
    /\ thrown' = IF result'.raised = NoExc THEN NoThrown
                 ELSE [exc |-> result'.raised, at |-> 0, by |-> "summary"]
    /\ raised' = result'.raised
    /\ pc' = "sum_done"
    /\ UNCHANGED <<ip, input, writes, scratch, benchmarks, calls, loaded,
                   artifact>>

SumNext == SumStep

SumSpec == SumInit /\ [][SumNext]_vars

-----------------------------------------------------------------------------
(* Properties of run_benchmarks (Spec) *)

Labels(bs) == [k \in 1..Len(bs) |-> bs[k].operation]

ConnectorCalls(cs) == SelectSeq(cs, LAMBDA c : c.who # "generator")

ExpectedLabels ==
    << <<"l","o","a","d","_","s","m","a","l","l">>,
       <<"v","a","l","i","d","a","t","e","_","s","m","a","l","l">>,
       <<"f","i","x","_","d","a","x","_","s","m","a","l","l">>,
       <<"r","e","n","a","m","e","_","t","a","b","l","e","_","s","m","a","l","l">>,
       <<"l","o","a","d","_","m","e","d","i","u","m">>,
       <<"v","a","l","i","d","a","t","e","_","m","e","d","i","u","m">>,
       <<"f","i","x","_","d","a","x","_","m","e","d","i","u","m">>,
       <<"l","o","a","d","_","l","a","r","g","e">>,
       <<"v","a","l","i","d","a","t","e","_","l","a","r","g","e">>,
       <<"f","i","x","_","d","a","x","_","l","a","r","g","e">> >>

ExpectedConnectorCalls ==
    << [who |-> "connector", op |-> "load_project"],
       [who |-> "connector", op |-> "validate_tmdl_syntax"],
       [who |-> "connector", op |-> "fix_all_dax_quoting"],
       [who |-> "connector", op |-> "rename_table_in_files"],
       [who |-> "connector2", op |-> "load_project"],
       [who |-> "connector2", op |-> "validate_tmdl_syntax"],
       [who |-> "connector2", op |-> "fix_all_dax_quoting"],
       [who |-> "connector3", op |-> "load_project"],
       [who |-> "connector3", op |-> "validate_tmdl_syntax"],
       [who |-> "connector3", op |-> "fix_all_dax_quoting"] >>

\* C1: a run that completes without failure has appended exactly 10 samples, in
\* the order load, validate, fix, rename (small), load, validate, fix (medium),
\* load, validate, fix (large), and has invoked the connector operations in that
\* order: rename for the small tier only, each tier's load before its validate
\* before its fix.
C1_RunOrder ==
    (pc = "done" /\ raised = NoExc)
    => /\ Len(benchmarks) = 10
       /\ Labels(benchmarks) = ExpectedLabels
       /\ ConnectorCalls(calls) = ExpectedConnectorCalls

C1_Witness ==
    /\ pc = "done"
    /\ raised = NoExc
    /\ artifact.written
    /\ Len(benchmarks) = 10
    /\ calls[5] = [who |-> "connector", op |-> "rename_table_in_files"]

\* C2 as stated: once the run has terminated the scratch directory created for it
\* no longer exists, and its removal was attempted exactly once.
C2_ScratchGoneOriginal ==
    (pc = "done" /\ scratch.created)
    => (~scratch.exists /\ scratch.rmtree_calls = 1)

\* C2 (amended): for every run that created its scratch directory, the removal is
\* attempted exactly once, when the run terminates and on every exit path (normal
\* completion or a failure in fixture generation, a connector operation, the
\* summary or the artifact write), never earlier; the directory no longer exists
\* afterwards unless the deletion itself failed, which is ignored.
C2_CleanupOnce ==
    /\ (pc = "done" /\ scratch.created)
          => /\ scratch.rmtree_calls = 1
             /\ scratch.rmtree_ok
                   => (~scratch.exists /\ Files = {} /\ scratch.left = {})
    /\ (pc # "done") => scratch.rmtree_calls = 0

C2_Witness ==
    /\ pc = "done"
    /\ thrown.by = "generate"
    /\ raised = "OSError"
    /\ scratch.created
    /\ scratch.rmtree_calls = 1
    /\ ~scratch.exists

OpStepsBefore(k) == Cardinality({j \in 1..(k - 1) : RunPlan[j].kind = "op"})

\* C3: once a timed connector operation has raised, the run is aborting or has
\* aborted with exactly that exception: no sample was appended for the failed
\* operation, the failed call is the last call made (no later connector
\* operation, no later fixture generation), and the artifact is not written.
C3_ConnectorFailureAborts ==
    (thrown.by = "connector")
    => /\ pc \in {"finally", "done"}
       /\ raised = thrown.exc
       /\ Len(calls) = thrown.at
       /\ calls[thrown.at] = [who |-> RunPlan[thrown.at].who,
                              op |-> RunPlan[thrown.at].op]
       /\ Len(benchmarks) = OpStepsBefore(thrown.at)
       /\ \A k \in 1..Len(benchmarks) :
             benchmarks[k].operation # RunPlan[thrown.at].label
       /\ ~artifact.written
       /\ result = NoResult

C3_Witness ==
    /\ pc = "done"
    /\ thrown = [exc |-> "ValueError", at |-> 8, by |-> "connector"]
    /\ raised = "ValueError"
    /\ Len(benchmarks) = 5
    /\ ~artifact.written

TierOf(c) == IF c = 1 THEN "small" ELSE IF c = 2 THEN "medium" ELSE "large"

\* C10: no file under the scratch root is written by the generate calls of two
\* scenarios, and the project a scenario's connector loads holds only files
\* written by that scenario's own generate call.
C10_FixturesDisjoint ==
    /\ Cardinality({o.path : o \in Owner}) = Cardinality(Owner)
    /\ \A c \in 1..3 : loaded[c] \subseteq {TierOf(c)}

-----------------------------------------------------------------------------
(* Properties of create_performance_test_project (GenSpec) *)

FilesIn(dir) == {f \in Files : f.path.dir = dir}

VisualFiles == {f \in Files : f.path.dir = PagesDir /\ f.path.sub # << >>}

PageDirs == {f.path.sub[1] : f \in VisualFiles}

\* C4: after the call returns the project holds exactly num_tables table files and
\* num_tables - 1 relationship files, and in the Enhanced variant exactly
\* num_visuals visual descriptor files under exactly ceil(num_visuals / 5) page
\* directories.
C4_FileCounts ==
    (pc = "gen_done")
    => /\ Cardinality(FilesIn(TablesDir)) = input.num_tables
       /\ Cardinality(FilesIn(RelationshipsDir)) = input.num_tables - 1
       /\ input.enhanced
             => /\ Cardinality(VisualFiles) = input.num_visuals
                /\ \A f \in VisualFiles :
                      /\ f.content.kind = "visual"
                      /\ Len(f.path.sub) = 3
                      /\ f.path.sub[2] = c_visuals
                /\ Cardinality(PageDirs) = (input.num_visuals + 4) \div 5

C4_Witness ==
    /\ pc = "gen_done"
    /\ input.enhanced
    /\ input.num_tables = 7
    /\ input.num_visuals = 11
    /\ Cardinality(FilesIn(TablesDir)) = 7
    /\ Cardinality(FilesIn(RelationshipsDir)) = 6
    /\ Cardinality(VisualFiles) = 11
    /\ Cardinality(PageDirs) = 3

\* the relationship files whose declared name is rel_k
RelsNamed(k) ==
    {f \in FilesIn(RelationshipsDir) : f.content.name = c_rel \o c_us \o Dec(k)}

\* the file of the k-th generated table (k is 1-based)
TableFile(k) == CHOOSE f \in Files : f.path = TablePath(k - 1)

\* C5: for every k in 1..num_tables-1 there is exactly one relationship k; it is a
\* many-to-one edge from table k to table k+1 joined on the first column of each;
\* no other relationship exists.
C5_LinearChain ==
    (pc = "gen_done")
    => /\ \A k \in 1..(input.num_tables - 1) :
             /\ Cardinality(RelsNamed(k)) = 1
             /\ \A f \in RelsNamed(k) :
                   /\ f.content.cardinality = "manyToOne"
                   /\ f.content.fromTable \o c_tmdl = TableFile(k).path.name
                   /\ f.content.toTable \o c_tmdl = TableFile(k + 1).path.name
                   /\ f.content.fromColumn = TableFile(k).content.columns[1].name
                   /\ f.content.toColumn = TableFile(k + 1).content.columns[1].name
       /\ FilesIn(RelationshipsDir)
             = UNION {RelsNamed(k) : k \in 1..(input.num_tables - 1)}

C5_Witness ==
    /\ pc = "gen_done"
    /\ input.num_tables = 7
    /\ Cardinality(FilesIn(RelationshipsDir)) = 6
    /\ \E f \in RelsNamed(6) :
          /\ f.content.fromTable = <<"T","a","b","l","e","_","0","0","6">>
          /\ f.content.toTable = <<"T","a","b","l","e","_","0","0","7">>

\* C6: the name of the generated table of 0-based index i contains a space
\* character if and only if i mod 3 = 0.
C6_SpaceEveryThird ==
    (pc = "gen_done")
    => \A i \in 0..(input.num_tables - 1) :
          HasSpace(TableFile(i + 1).content.name) <=> (i % 3 = 0)

C6_Witness ==
    /\ pc = "gen_done"
    /\ input.num_tables >= 5
    /\ HasSpace(TableFile(4).content.name)
    /\ ~HasSpace(TableFile(5).content.name)
    /\ TableFile(4).content.name
          = <<"T","a","b","l","e"," ","W","i","t","h"," ","S","p","a","c","e","s",
              "_","0","0","4">>

-----------------------------------------------------------------------------
(* Properties of the summary analysis (SumSpec) *)

\* the double d as the integer floor(d * 2^k), for 0 <= d * 2^k < 2^31
RECURSIVE HalveTimes(_, _)
HalveTimes(m, n) ==
    IF n = 0 \/ (m.hi = 0 /\ m.lo = 0) THEN m
    ELSE HalveTimes([hi |-> m.hi \div 2, lo |-> m.lo \div 2 + (m.hi % 2) * 2^26], n - 1)

FloorScaled(d, k) ==
    LET m == HalveTimes([hi |-> d.hi, lo |-> d.lo], 0 - (d.e + k))
    IN  m.hi * W + m.lo

\* the bits kept when a quotient is compared with the exact one: 2^-12
Precision == 2^12

\* C7: whenever the small and the large tier both have a sample, the scaling
\* factor is large average / small average (the float quotient, within 2^-12 of
\* the exact one) when the small average is greater than zero, and is zero, with
\* no error raised by the summary section, when the small average is zero.
C7_Scaling ==
    (result.small_ops # << >> /\ result.large_ops # << >>)
    => LET sf == result.scaling_factor
           ss == SumTimes(result.small_ops)
           sn == Len(result.small_ops)
           ls == SumTimes(result.large_ops)
           ln == Len(result.large_ops)
           exact == (ls * sn * Precision) \div (ln * ss)
       IN  /\ result.has_factor
           /\ IF ss > 0
              THEN /\ sf = FDiv(Avg(result.large_ops), Avg(result.small_ops))
                   /\ FloorScaled(sf, 12) \in (exact - 1)..(exact + 1)
              ELSE /\ sf = ZeroD
                   /\ result.raised = NoExc

\* the run whose four small-tier times are zero, on a standard output that
\* cannot encode the check mark: the factor is zero and the print raises
C7_Witness ==
    /\ pc = "done"
    /\ Len(result.small_ops) = 4
    /\ Len(result.large_ops) = 3
    /\ SumTimes(result.small_ops) = 0
    /\ result.has_factor
    /\ result.scaling_factor = ZeroD
    /\ thrown = [exc |-> "UnicodeEncodeError", at |-> 14, by |-> "summary"]
    /\ raised = "UnicodeEncodeError"
    /\ ~artifact.written

\* C8: the classification depends on the scaling factor alone: below 30
\* "sub-linear", from 30 to below 100 "linear", 100 or more "super-linear";
\* averages small 10 and large 25 give factor 2.5 and "sub-linear"; without a
\* factor, or when its line cannot be printed, nothing is classified.  (For a
\* double sf and an integer n, sf < n exactly when floor(sf) < n.)
C8_Classification ==
    (pc = "sum_done")
    => LET sf == result.scaling_factor
           cl == result.classification
       IN  IF result.has_factor /\ raised = NoExc
           THEN /\ cl \in {"sub-linear", "linear", "super-linear"}
                /\ (cl = "sub-linear") <=> (FloorScaled(sf, 0) < 30)
                /\ (cl = "linear")
                      <=> (30 <= FloorScaled(sf, 0) /\ FloorScaled(sf, 0) < 100)
                /\ (cl = "super-linear") <=> (100 <= FloorScaled(sf, 0))
                /\ (/\ SumTimes(result.small_ops) = 10 * Len(result.small_ops)
                    /\ SumTimes(result.large_ops) = 25 * Len(result.large_ops))
                      => (/\ sf = [hi |-> 5 * 2^23, lo |-> 0, e |-> 0 - 51]
                          /\ cl = "sub-linear")
           ELSE cl = "none"

C8_Witness ==
    /\ pc = "sum_done"
    /\ raised = NoExc
    /\ result.has_factor
    /\ SumTimes(result.small_ops) = 10 * Len(result.small_ops)
    /\ SumTimes(result.large_ops) = 25 * Len(result.large_ops)
    /\ FloorScaled(result.scaling_factor, 1) = 5
    /\ result.classification = "sub-linear"

Group(t) ==
    IF t = 1 THEN result.small_ops
    ELSE IF t = 2 THEN result.medium_ops ELSE result.large_ops

TiersIn(label) == {t \in 1..3 : Contains(Tiers[t], label)}

=============================================================================
